---- MODULE Spec2Model ----
(***************************************************************************)
(* Reference-counted memory-based HashDB (util/src/memorydb.rs).           *)
(*                                                                         *)
(* Two stores are modelled: `data` is the table of the store under test    *)
(* (main), `other` is the table of an overlay store that is built with     *)
(* insert/remove and then folded into main by consolidate.                 *)
(***************************************************************************)
EXTENDS Integers, Sequences, FiniteSets, TLC

VARIABLES
    data,       \* MemoryDB.data of the main store: H256 -> (DBValue, i32)
    other,      \* MemoryDB.data of the overlay store
    last,       \* the call that produced this state: op, key, value, ret
    pre,        \* main's table before that call
    preOther,   \* the overlay's table before that call
    panicked,   \* an arithmetic overflow check aborted the call (debug build)
    net,        \* per key: inserts minus removes applied to main since it was
                \* last empty (a consolidate adds the overlay's refcounts)
    direct      \* main's table had the calls of the replay under way, or just
                \* consolidated, been made on main itself; else main's table

vars == <<data, other, last, pre, preOther, panicked, net, direct>>

----------------------------------------------------------------------------
(* Bounds of the exploration *)

\* refcounts of the main store are explored within MaxRC of zero
MaxRC == 2
\* refcounts of the overlay store are explored within MaxOtherRC of zero
MaxOtherRC == 1
\* ... and, when a run starts at an i32 limit, within MaxEdge of that limit
MaxEdge == 1

----------------------------------------------------------------------------
(* Constants of the program *)

I32_MAX == 2147483647
I32_MIN == -I32_MAX - 1

\* rlp::NULL_RLP, the RLP encoding of the empty string: the single byte 0x80
NULL_RLP == <<128>>
\* DBValue::new(): the empty byte string written by a remove of an absent key
EmptyValue == <<>>

\* The digests, named by the first bytes of the real Keccak-256 digests.
SHA3_NULL_RLP == "56e81f17"
SHA3_EMPTY == "c5d24601"
SHA3_ONE == "5fe7f977"

\* value.sha3(): a pure injective function on the byte strings of the model
sha3(value) ==
    CASE value = NULL_RLP -> SHA3_NULL_RLP
      [] value = <<>> -> SHA3_EMPTY
      [] value = <<1>> -> SHA3_ONE

\* byte strings handed to insert / emplace
Values == {<<>>, <<1>>, NULL_RLP}
\* keys handed to remove / remove_and_purge
Keys == {SHA3_EMPTY, SHA3_ONE, SHA3_NULL_RLP}
\* (key, value) pairs handed to emplace: the pairs with key = sha3(value),
\* an ordinary key with a value that is not its preimage, the null key with
\* a value that is not NULL_RLP, and an ordinary key with NULL_RLP
EmplaceArgs ==
    { <<sha3(v), v>> : v \in Values }
    \cup { <<SHA3_ONE, <<>>>>, <<SHA3_NULL_RLP, <<1>>>>, <<SHA3_ONE, NULL_RLP>> }

----------------------------------------------------------------------------
(* i32 arithmetic.  `a + b` on i32 that leaves the range: a release build  *)
(* wraps, a debug build panics ("attempt to add with overflow").  TLC's    *)
(* integers are themselves 32 bits wide, so the sum is never formed when   *)
(* it would leave the range.                                               *)

Overflows(a, b) ==
    \/ b > 0 /\ a > I32_MAX - b
    \/ b < 0 /\ a < I32_MIN - b

WrappingAdd(a, b) ==
    IF b > 0 /\ a > I32_MAX - b THEN I32_MIN + (b - (I32_MAX - a) - 1)
    ELSE IF b < 0 /\ a < I32_MIN - b THEN I32_MAX + (b + (a - I32_MIN) + 1)
    ELSE a + b

----------------------------------------------------------------------------
(* Option<T>, the entries and the map *)

None == [some |-> FALSE]
Some(x) == [some |-> TRUE, val |-> x]

Entry(value, rc) == [value |-> value, rc |-> rc]

\* H256FastMap::default()
EmptyMap == [k \in {} |-> Entry(<<>>, 0)]

\* HashMap::insert(key, entry)
MapInsert(t, key, e) == [k \in DOMAIN t \cup {key} |-> IF k = key THEN e ELSE t[k]]
\* HashMap::remove(key)
MapRemove(t, key) == [k \in DOMAIN t \ {key} |-> t[k]]

\* outcome of a mutating call: the table after it, what it returned, and
\* whether it panicked instead of returning
Result(t, ret, panic) == [t |-> t, ret |-> ret, panic |-> panic]

\* `*x += d` on the refcount of the entry at key, the entry's value becoming
\* newValue: the outcomes the two build profiles produce
AddRc(t, key, d, newValue, ret) ==
    IF Overflows(t[key].rc, d)
    THEN { Result(t, None, TRUE),
           Result([t EXCEPT ![key] = Entry(newValue, WrappingAdd(t[key].rc, d))], ret, FALSE) }
    ELSE { Result([t EXCEPT ![key] = Entry(newValue, t[key].rc + d)], ret, FALSE) }

----------------------------------------------------------------------------
(* Observers *)

\* raw without the early return for the null key
raw_table_only(t, key) ==
    IF key \in DOMAIN t THEN Some(t[key]) ELSE None

raw(t, key) ==
    IF key = SHA3_NULL_RLP THEN Some(Entry(NULL_RLP, 1))
    ELSE IF key \in DOMAIN t THEN Some(t[key]) ELSE None

\* get that hands out the value of any entry, whatever its count
get_any_rc(t, key) ==
    IF key = SHA3_NULL_RLP THEN Some(NULL_RLP)
    ELSE IF key \in DOMAIN t THEN Some(t[key].value) ELSE None

get(t, key) ==
    IF key = SHA3_NULL_RLP THEN Some(NULL_RLP)
    ELSE IF key \in DOMAIN t /\ t[key].rc > 0 THEN Some(t[key].value) ELSE None

\* contains that takes an entry at zero for one in use
contains_nonnegative(t, key) ==
    IF key = SHA3_NULL_RLP THEN TRUE
    ELSE key \in DOMAIN t /\ t[key].rc >= 0

contains(t, key) ==
    IF key = SHA3_NULL_RLP THEN TRUE
    ELSE key \in DOMAIN t /\ t[key].rc > 0

\* keys that lists only the entries in use
keys_positive_only(t) == [k \in {x \in DOMAIN t : t[x].rc > 0} |-> t[k].rc]

keys(t) == [k \in {x \in DOMAIN t : t[x].rc # 0} |-> t[k].rc]

----------------------------------------------------------------------------
(* Mutators: from the table to the set of possible outcomes *)

\* insert that takes an entry with a refcount <= 0 for a dead one and starts
\* it again at 1
insert_resets_debt(t, value) ==
    IF value = NULL_RLP THEN { Result(t, SHA3_NULL_RLP, FALSE) }
    ELSE LET key == sha3(value) IN
         IF key \in DOMAIN t /\ t[key].rc > 0
         THEN AddRc(t, key, 1, t[key].value, key)
         ELSE { Result(MapInsert(t, key, Entry(value, 1)), key, FALSE) }

\* insert that never writes the value of an entry that exists
insert_keep_value(t, value) ==
    IF value = NULL_RLP THEN { Result(t, SHA3_NULL_RLP, FALSE) }
    ELSE LET key == sha3(value) IN
         IF key \in DOMAIN t
         THEN AddRc(t, key, 1, t[key].value, key)
         ELSE { Result(MapInsert(t, key, Entry(value, 1)), key, FALSE) }

insert(t, value) ==
    IF value = NULL_RLP THEN { Result(t, SHA3_NULL_RLP, FALSE) }
    ELSE LET key == sha3(value) IN
         IF key \in DOMAIN t
         THEN IF t[key].rc <= 0
              THEN AddRc(t, key, 1, value, key)
              ELSE AddRc(t, key, 1, t[key].value, key)
         ELSE { Result(MapInsert(t, key, Entry(value, 1)), key, FALSE) }

\* emplace that stores the given value whatever the count
emplace_always_overwrite(t, key, value) ==
    IF value = NULL_RLP THEN { Result(t, None, FALSE) }
    ELSE IF key \in DOMAIN t
         THEN AddRc(t, key, 1, value, None)
         ELSE { Result(MapInsert(t, key, Entry(value, 1)), None, FALSE) }

\* emplace that takes the null key, not the null value, for its no-op case
emplace_key_guard(t, key, value) ==
    IF key = SHA3_NULL_RLP THEN { Result(t, None, FALSE) }
    ELSE IF key \in DOMAIN t
         THEN IF t[key].rc <= 0
              THEN AddRc(t, key, 1, value, None)
              ELSE AddRc(t, key, 1, t[key].value, None)
         ELSE { Result(MapInsert(t, key, Entry(value, 1)), None, FALSE) }

emplace(t, key, value) ==
    IF value = NULL_RLP THEN { Result(t, None, FALSE) }
    ELSE IF key \in DOMAIN t
         THEN IF t[key].rc <= 0
              THEN AddRc(t, key, 1, value, None)
              ELSE AddRc(t, key, 1, t[key].value, None)
         ELSE { Result(MapInsert(t, key, Entry(value, 1)), None, FALSE) }

\* remove that stops at zero and records no debt
remove_saturating(t, key) ==
    IF key = SHA3_NULL_RLP THEN { Result(t, None, FALSE) }
    ELSE IF key \in DOMAIN t /\ t[key].rc > 0
         THEN AddRc(t, key, -1, t[key].value, None)
         ELSE { Result(t, None, FALSE) }

\* remove without the early return for the null key
remove_unguarded(t, key) ==
    IF key \in DOMAIN t
    THEN AddRc(t, key, -1, t[key].value, None)
    ELSE { Result(MapInsert(t, key, Entry(EmptyValue, -1)), None, FALSE) }

\* remove that blanks the value once the count is no longer positive
remove_clears_value(t, key) ==
    IF key = SHA3_NULL_RLP THEN { Result(t, None, FALSE) }
    ELSE IF key \in DOMAIN t
         THEN AddRc(t, key, -1, IF t[key].rc <= 1 THEN EmptyValue ELSE t[key].value, None)
         ELSE { Result(MapInsert(t, key, Entry(EmptyValue, -1)), None, FALSE) }

\* remove that drops the entry when its count reaches zero
remove_drops_zero(t, key) ==
    IF key = SHA3_NULL_RLP THEN { Result(t, None, FALSE) }
    ELSE IF key \in DOMAIN t
         THEN IF t[key].rc = 1
              THEN { Result(MapRemove(t, key), None, FALSE) }
              ELSE AddRc(t, key, -1, t[key].value, None)
         ELSE { Result(MapInsert(t, key, Entry(EmptyValue, -1)), None, FALSE) }

remove(t, key) ==
    IF key = SHA3_NULL_RLP THEN { Result(t, None, FALSE) }
    ELSE IF key \in DOMAIN t
         THEN AddRc(t, key, -1, t[key].value, None)
         ELSE { Result(MapInsert(t, key, Entry(EmptyValue, -1)), None, FALSE) }

\* remove_and_purge that deletes the entry whenever the count would not stay
\* positive
remove_and_purge_le1(t, key) ==
    IF key = SHA3_NULL_RLP THEN { Result(t, None, FALSE) }
    ELSE IF key \in DOMAIN t
         THEN IF t[key].rc <= 1
              THEN { Result(MapRemove(t, key), Some(t[key].value), FALSE) }
              ELSE AddRc(t, key, -1, t[key].value, None)
         ELSE { Result(MapInsert(t, key, Entry(EmptyValue, -1)), None, FALSE) }

remove_and_purge(t, key) ==
    IF key = SHA3_NULL_RLP THEN { Result(t, None, FALSE) }
    ELSE IF key \in DOMAIN t
         THEN IF t[key].rc = 1
              THEN { Result(MapRemove(t, key), Some(t[key].value), FALSE) }
              ELSE AddRc(t, key, -1, t[key].value, None)
         ELSE { Result(MapInsert(t, key, Entry(EmptyValue, -1)), None, FALSE) }

\* purge that also deletes the entries in debt
purge_nonpositive(t) == [k \in {x \in DOMAIN t : t[x].rc > 0} |-> t[k]]

purge(t) == [k \in {x \in DOMAIN t : t[x].rc # 0} |-> t[k]]

\* drain that hands back only the entries with a non-zero count
drain_live_only(t) ==
    Result(EmptyMap, Some([k \in {x \in DOMAIN t : t[x].rc # 0} |-> t[k]]), FALSE)

\* mem::replace(&mut self.data, H256FastMap::default())
drain(t) == Result(EmptyMap, Some(t), FALSE)

\* the iteration with the test `rc <= 0` in place of `rc < 0`
consolidate_entry_le(t, key, e) ==
    IF key \in DOMAIN t
    THEN Entry(IF t[key].rc <= 0 THEN e.value ELSE t[key].value,
               WrappingAdd(t[key].rc, e.rc))
    ELSE e

\* the iteration that takes the overlay's count in place of the sum
consolidate_entry_takes_rc(t, key, e) ==
    IF key \in DOMAIN t
    THEN Entry(IF t[key].rc < 0 THEN e.value ELSE t[key].value, e.rc)
    ELSE e

\* one iteration of the loop of consolidate, without the overflow check:
\* the entry of self at key after (key, e) of other is folded into it
consolidate_entry(t, key, e) ==
    IF key \in DOMAIN t
    THEN Entry(IF t[key].rc < 0 THEN e.value ELSE t[key].value,
               WrappingAdd(t[key].rc, e.rc))
    ELSE e

\* the loop dropping the entries whose refcounts cancel
consolidate_keys_drop_zero(t, o, ks) ==
    LET all == [k \in DOMAIN t \cup ks |->
                  IF k \in ks
                  THEN IF k \in DOMAIN t
                       THEN Entry(IF t[k].rc < 0 THEN o[k].value ELSE t[k].value,
                                  WrappingAdd(t[k].rc, o[k].rc))
                       ELSE o[k]
                  ELSE t[k]]
    IN [k \in {x \in DOMAIN all : x \notin ks \/ all[x].rc # 0} |-> all[k]]

\* the iterations for the keys in ks (each touches only its own key, so the
\* result does not depend on the order in which the map is iterated)
consolidate_keys(t, o, ks) ==
    [k \in DOMAIN t \cup ks |->
        IF k \in ks THEN consolidate_entry(t, k, o[k]) ELSE t[k]]

\* keys of o whose `+= rc` leaves the i32 range
overflowing(t, o) ==
    {k \in DOMAIN o : k \in DOMAIN t /\ Overflows(t[k].rc, o[k].rc)}

\* consolidate: every key folded; or, when some `+= rc` overflows, also the
\* panic at one such key k after the iterations for some keys `done`
consolidate(t, o) ==
    { Result(consolidate_keys(t, o, DOMAIN o), None, FALSE) }
    \cup
    { Result([consolidate_keys(t, o, done) EXCEPT
                 ![k].value = IF t[k].rc < 0 THEN o[k].value ELSE @], None, TRUE) :
        k \in overflowing(t, o), done \in SUBSET (DOMAIN o \ overflowing(t, o)) }

----------------------------------------------------------------------------
(* The state machine *)

\* the refcounts the exploration follows: near zero, or near an i32 limit
Near(rc, R) ==
    \/ rc >= -R /\ rc <= R
    \/ rc >= I32_MAX - MaxEdge
    \/ rc <= I32_MIN + MaxEdge

Bounded(t, R) == \A k \in DOMAIN t : Near(t[k].rc, R)

Call(op, key, value, ret) == [op |-> op, key |-> key, value |-> value, ret |-> ret]

\* the refcount as a number, an absent entry counting 0
rcOf(t, key) == IF key \in DOMAIN t THEN t[key].rc ELSE 0

ZeroNet == [k \in Keys |-> 0]

\* MemoryDB::new() for both stores
Init ==
    /\ data = EmptyMap
    /\ other = EmptyMap
    /\ last = Call("new", "-", <<>>, None)
    /\ pre = EmptyMap
    /\ preOther = EmptyMap
    /\ panicked = FALSE
    /\ net = ZeroNet
    /\ direct = data

\* a call on the main store with outcome r; n is the count after it returns
MainCall(op, key, value, r, n) ==
    /\ ~panicked
    /\ Bounded(r.t, MaxRC)
    /\ data' = r.t
    /\ last' = Call(op, key, value, r.ret)
    /\ panicked' = r.panic
    /\ net' = IF r.panic THEN net ELSE n
    /\ pre' = data
    /\ preOther' = other
    /\ other' = other
    /\ direct' = r.t

Insert ==
    \E value \in Values : \E r \in insert(data, value) :
        MainCall("insert", "-", value, r,
                 IF value = NULL_RLP THEN net
                 ELSE [net EXCEPT ![sha3(value)] = @ + 1])

\* emplace called with one of the pairs in args
EmplaceWith(args) ==
    \E a \in args : \E r \in emplace(data, a[1], a[2]) :
        MainCall("emplace", a[1], a[2], r,
                 IF a[2] = NULL_RLP THEN net ELSE [net EXCEPT ![a[1]] = @ + 1])

Emplace == EmplaceWith(EmplaceArgs)

\* emplace as a caller that keeps key = sha3(value) uses it
EmplaceTrusted == EmplaceWith({a \in EmplaceArgs : a[1] = sha3(a[2])})

Remove ==
    \E key \in Keys : \E r \in remove(data, key) :
        MainCall("remove", key, <<>>, r,
                 IF key = SHA3_NULL_RLP THEN net ELSE [net EXCEPT ![key] = @ - 1])

RemoveAndPurge ==
    \E key \in Keys : \E r \in remove_and_purge(data, key) :
        MainCall("remove_and_purge", key, <<>>, r,
                 IF key = SHA3_NULL_RLP THEN net ELSE [net EXCEPT ![key] = @ - 1])

Purge ==
    MainCall("purge", "-", <<>>, Result(purge(data), None, FALSE), net)

\* keys(&self): the table is only read
KeysCall ==
    MainCall("keys", "-", <<>>, Result(data, Some(keys(data)), FALSE), net)

\* self.data.clear()
Clear ==
    MainCall("clear", "-", <<>>, Result(EmptyMap, None, FALSE), ZeroNet)

Drain ==
    MainCall("drain", "-", <<>>, drain(data), ZeroNet)

\* main.consolidate(other): other is moved into the call and dropped by it;
\* the overlay starts again as a new store.
Consolidate ==
    /\ ~panicked
    /\ \E r \in consolidate(data, other) :
          /\ Bounded(r.t, MaxRC)
          /\ data' = r.t
          /\ panicked' = r.panic
          /\ net' = IF r.panic THEN net
                    ELSE [k \in Keys |-> net[k] + rcOf(other, k)]
    /\ other' = EmptyMap
    /\ last' = Call("consolidate", "-", <<>>, None)
    /\ pre' = data
    /\ preOther' = other
    /\ direct' = data'

\* a call on the overlay store with outcome r
OtherCall(op, key, value, r) ==
    /\ ~panicked
    /\ Bounded(r.t, MaxOtherRC)
    /\ other' = r.t
    /\ last' = Call(op, key, value, r.ret)
    /\ panicked' = r.panic
    /\ pre' = data
    /\ preOther' = other
    /\ data' = data
    /\ net' = net
    /\ direct' = data

\* the calls on the overlay leave out NULL_RLP and SHA3_NULL_RLP, whose early
\* returns are followed on main
OtherInsert ==
    \E value \in Values \ {NULL_RLP} : \E r \in insert(other, value) :
        OtherCall("other.insert", "-", value, r)

OtherRemove ==
    \E key \in Keys \ {SHA3_NULL_RLP} : \E r \in remove(other, key) :
        OtherCall("other.remove", key, <<>>, r)

Next ==
    \/ Insert
    \/ Emplace
    \/ Remove
    \/ RemoveAndPurge
    \/ Purge
    \/ Clear
    \/ Drain
    \/ Consolidate
    \/ OtherInsert
    \/ OtherRemove

Spec == Init /\ [][Next]_vars

----------------------------------------------------------------------------
(* The store used only by callers that keep key = sha3(value) in emplace *)

NextTrusted ==
    \/ Insert
    \/ EmplaceTrusted
    \/ Remove
    \/ RemoveAndPurge
    \/ Purge
    \/ Clear
    \/ Drain
    \/ Consolidate
    \/ OtherInsert
    \/ OtherRemove

SpecTrusted == Init /\ [][NextTrusted]_vars

----------------------------------------------------------------------------
(* A new store on which only insert, remove, remove_and_purge and purge    *)
(* are called, and keys() is read                                          *)

NextFresh ==
    \/ Insert
    \/ Remove
    \/ RemoveAndPurge
    \/ Purge
    \/ KeysCall

SpecFresh == Init /\ [][NextFresh]_vars

----------------------------------------------------------------------------
(* The arithmetic at the limits of i32.  A store reaches a refcount of     *)
(* i32::MAX by 2^31 - 1 inserts of one value and of i32::MIN by 2^31       *)
(* removes of one key (or by some thirty consolidations that double it);   *)
(* these runs start there.  `net` counts from the start of the run.        *)

InitBoundary ==
    /\ data \in { [k \in {SHA3_ONE} |-> Entry(<<1>>, I32_MAX)],
                  [k \in {SHA3_ONE} |-> Entry(EmptyValue, I32_MIN)] }
    /\ other = EmptyMap
    /\ last = Call("new", "-", <<>>, None)
    /\ pre = data
    /\ preOther = EmptyMap
    /\ panicked = FALSE
    /\ net = ZeroNet
    /\ direct = data

NextBoundary ==
    \/ Insert
    \/ Emplace
    \/ Remove
    \/ RemoveAndPurge
    \/ Purge
    \/ Consolidate
    \/ OtherInsert
    \/ OtherRemove

SpecBoundary == InitBoundary /\ [][NextBoundary]_vars

----------------------------------------------------------------------------
(* Replay: a sequence of insert and remove calls is made on a new overlay, *)
(* which is then consolidated into main; direct follows the same calls     *)
(* made on main itself                                                     *)

InReplay == last.op \in {"replay.insert", "replay.remove"}

\* the table the direct calls work on: main's when the sequence starts
ReplayBase == IF InReplay THEN direct ELSE data

\* one call of the sequence: rb is its outcome on the overlay, rd on direct
ReplayCall(op, key, value, rb, rd) ==
    /\ ~panicked
    /\ ~rb.panic /\ ~rd.panic
    /\ Bounded(rb.t, MaxOtherRC)
    /\ other' = rb.t
    /\ direct' = rd.t
    /\ last' = Call(op, key, value, rb.ret)
    /\ panicked' = FALSE
    /\ pre' = data
    /\ preOther' = other
    /\ data' = data
    /\ net' = net

ReplayInsert ==
    \E value \in Values :
        \E rb \in insert(other, value), rd \in insert(ReplayBase, value) :
            ReplayCall("replay.insert", "-", value, rb, rd)

ReplayRemove ==
    \E key \in Keys :
        \E rb \in remove(other, key), rd \in remove(ReplayBase, key) :
            ReplayCall("replay.remove", key, <<>>, rb, rd)

\* main.consolidate(other) at the end of the sequence
ReplayConsolidate ==
    /\ ~panicked
    /\ InReplay
    /\ \E r \in consolidate(data, other) :
          /\ ~r.panic
          /\ Bounded(r.t, MaxRC)
          /\ data' = r.t
          /\ net' = [k \in Keys |-> net[k] + rcOf(other, k)]
    /\ panicked' = FALSE
    /\ other' = EmptyMap
    /\ direct' = direct
    /\ last' = Call("replay.consolidate", "-", <<>>, None)
    /\ pre' = data
    /\ preOther' = other

\* main is built by calls of its own while no sequence is under way
NextReplay ==
    \/ ~InReplay /\ Insert
    \/ ~InReplay /\ Emplace
    \/ ~InReplay /\ Remove
    \/ ~InReplay /\ Purge
    \/ ReplayInsert
    \/ ReplayRemove
    \/ ReplayConsolidate

SpecReplay == Init /\ [][NextReplay]_vars

----------------------------------------------------------------------------
(* Properties                                                              *)

\* the refcount raw reports, an absent entry counting 0
rawCount(t, key) == IF raw(t, key).some THEN raw(t, key).val.rc ELSE 0

\* the last call was insert of a value other than NULL_RLP and returned
InsertReturned == last.op = "insert" /\ last.value # NULL_RLP /\ ~panicked

\* C1, as stated: after insert(v), v # NULL_RLP, in any state of the store,
\* the call has returned sha3(v) and contains(sha3(v)) is true.
C1_InsertThenContained ==
    InsertReturned =>
        /\ last.ret = sha3(last.value)
        /\ contains(data, sha3(last.value))

\* C1, amended: insert(v), v # NULL_RLP, returns sha3(v); contains(sha3(v))
\* is true right after it exactly when the key was absent or had a refcount
\* in 0 .. i32::MAX - 1 before the call.
C1_InsertContainedUnlessDebt ==
    InsertReturned =>
        LET k == sha3(last.value) IN
        /\ last.ret = k
        /\ contains(data, k) <=>
              (k \notin DOMAIN pre \/ (pre[k].rc >= 0 /\ pre[k].rc < I32_MAX))

\* an insert on a key in debt has returned and the key is not contained
C1_Witness ==
    /\ InsertReturned
    /\ sha3(last.value) \in DOMAIN pre
    /\ pre[sha3(last.value)].rc < 0
    /\ ~contains(data, sha3(last.value))

\* C2: on a new store that has seen only insert, remove, remove_and_purge and
\* purge, for every K = sha3(v), v # NULL_RLP: the refcount raw(K) reports
\* (absent as 0) is the number of inserts minus the number of removes,
\* contains(K) is true exactly when that number is positive, and get(K) is
\* then v.
C2_CountIsInsertsMinusRemoves ==
    \A v \in Values \ {NULL_RLP} :
        LET K == sha3(v) IN
        /\ rawCount(data, K) = net[K]
        /\ contains(data, K) <=> net[K] > 0
        /\ net[K] > 0 => get(data, K) = Some(v)

\* an insert has repaid a debt of one and the key is still not contained
C2_Witness ==
    /\ last.op = "insert"
    /\ last.value = <<1>>
    /\ SHA3_ONE \in DOMAIN pre
    /\ pre[SHA3_ONE].rc = -1
    /\ net[SHA3_ONE] = 0
    /\ ~contains(data, SHA3_ONE)

\* C3, as stated: whatever the arguments of the calls, SHA3_NULL_RLP is never
\* a key of the table, of keys() or of what drain returns.
C3_NullKeyNeverStored ==
    /\ SHA3_NULL_RLP \notin DOMAIN data
    /\ SHA3_NULL_RLP \notin DOMAIN keys(data)
    /\ last.op = "drain" => SHA3_NULL_RLP \notin DOMAIN last.ret.val

\* C3, amended: SHA3_NULL_RLP becomes a key of the table only by emplace
\* called with key = SHA3_NULL_RLP and a value other than NULL_RLP; no other
\* call puts it there, and the overlay built by insert and remove never
\* holds it.
C3_NullKeyOnlyByEmplace ==
    /\ SHA3_NULL_RLP \notin DOMAIN other
    /\ (SHA3_NULL_RLP \in DOMAIN data /\ SHA3_NULL_RLP \notin DOMAIN pre) =>
          (last.op = "emplace" /\ last.key = SHA3_NULL_RLP /\ last.value # NULL_RLP)

\* the call that has just put SHA3_NULL_RLP into the table
C3_Witness ==
    /\ SHA3_NULL_RLP \in DOMAIN data
    /\ SHA3_NULL_RLP \notin DOMAIN pre
    /\ SHA3_NULL_RLP \in DOMAIN keys(data)

\* C4: in every state contains(SHA3_NULL_RLP) is true, get(SHA3_NULL_RLP) is
\* NULL_RLP and raw(SHA3_NULL_RLP) is (NULL_RLP, 1).
C4_NullAlwaysPresent ==
    /\ contains(data, SHA3_NULL_RLP)
    /\ get(data, SHA3_NULL_RLP) = Some(NULL_RLP)
    /\ raw(data, SHA3_NULL_RLP) = Some(Entry(NULL_RLP, 1))

\* the table itself holds another entry under SHA3_NULL_RLP
C4_Witness ==
    /\ SHA3_NULL_RLP \in DOMAIN data
    /\ data[SHA3_NULL_RLP].value # NULL_RLP
    /\ data[SHA3_NULL_RLP].rc # 1

ContentAddressed(t) == \A k \in DOMAIN t : t[k].rc > 0 => sha3(t[k].value) = k

\* C5: when emplace is only called with key = sha3(value), every entry with
\* a refcount > 0, of the store and of the overlay, holds a value whose
\* digest is its key.
C5_ContentAddressed == ContentAddressed(data) /\ ContentAddressed(other)

\* consolidate has raised an entry from refcount 0 to a positive one
C5_Witness ==
    /\ last.op = "consolidate"
    /\ \E k \in DOMAIN pre \cap DOMAIN preOther :
          pre[k].rc = 0 /\ data[k].rc > 0

\* C6, as stated: after consolidate, for each key of other, the value stored
\* in self is self's old value if self had the key with refcount > 0, and
\* other's value if self had it with refcount <= 0 or did not have it.
C6_OverwriteAtZeroOrBelow ==
    last.op = "consolidate" =>
        \A k \in DOMAIN preOther :
            data[k].value = IF k \in DOMAIN pre /\ pre[k].rc > 0
                            THEN pre[k].value ELSE preOther[k].value

\* C6, amended: ... self's old value if self had the key with refcount >= 0,
\* and other's value if self had it with refcount < 0 or did not have it.
C6_OverwriteBelowZero ==
    last.op = "consolidate" =>
        \A k \in DOMAIN preOther :
            data[k].value = IF k \in DOMAIN pre /\ pre[k].rc >= 0
                            THEN pre[k].value ELSE preOther[k].value

\* consolidate has met an entry of self at refcount 0 whose value differs
\* from other's
C6_Witness ==
    /\ last.op = "consolidate"
    /\ \E k \in DOMAIN pre \cap DOMAIN preOther :
          pre[k].rc = 0 /\ pre[k].value # preOther[k].value

\* C7: after self.consolidate(other) the keys of self are the keys of both;
\* a key of both has refcount self_rc + other_rc (kept also when that is
\* zero or below), a key of other alone has other's entry, a key of self
\* alone has its entry unchanged.
C7_ConsolidateAdds ==
    last.op = "consolidate" =>
        /\ DOMAIN data = DOMAIN pre \cup DOMAIN preOther
        /\ \A k \in DOMAIN pre \cap DOMAIN preOther :
              data[k].rc = pre[k].rc + preOther[k].rc
        /\ \A k \in DOMAIN preOther \ DOMAIN pre : data[k] = preOther[k]
        /\ \A k \in DOMAIN pre \ DOMAIN preOther : data[k] = pre[k]

\* a consolidate with a key of both whose refcounts cancel, a key of other
\* alone and a key of self alone
C7_Witness ==
    /\ last.op = "consolidate"
    /\ \E k \in DOMAIN pre \cap DOMAIN preOther : pre[k].rc # 0 /\ data[k].rc = 0
    /\ DOMAIN preOther \ DOMAIN pre # {}
    /\ DOMAIN pre \ DOMAIN preOther # {}

\* the last call was remove_and_purge of a key other than SHA3_NULL_RLP
RemoveAndPurgeReturned ==
    last.op = "remove_and_purge" /\ last.key # SHA3_NULL_RLP /\ ~panicked

\* C8: remove_and_purge(key), key # SHA3_NULL_RLP, returns a value exactly
\* when the entry existed with refcount 1; it is then the stored value and
\* the entry is gone.  Otherwise the entry is there afterwards with one
\* reference less, or as (placeholder, -1) if it was absent.
C8_RemoveAndPurge ==
    RemoveAndPurgeReturned =>
        LET k == last.key IN
        /\ last.ret.some <=> (k \in DOMAIN pre /\ pre[k].rc = 1)
        /\ last.ret.some => (last.ret.val = pre[k].value /\ raw(data, k) = None)
        /\ ~last.ret.some =>
              /\ k \in DOMAIN data
              /\ IF k \in DOMAIN pre
                 THEN data[k].rc = pre[k].rc - 1
                 ELSE data[k] = Entry(EmptyValue, -1)

\* remove_and_purge has returned the value of an entry
C8_Witness ==
    /\ RemoveAndPurgeReturned
    /\ last.ret.some
    /\ last.ret.val = <<1>>
    /\ last.key \notin DOMAIN data

\* C9: purge deletes exactly the entries with refcount 0; every entry with a
\* positive or negative refcount is still there, unchanged.
C9_PurgeExactlyZero ==
    last.op = "purge" =>
        /\ DOMAIN data = {k \in DOMAIN pre : pre[k].rc # 0}
        /\ \A k \in DOMAIN data : data[k] = pre[k]

\* a purge of a table with an entry at 0, one in debt and one referenced
C9_Witness ==
    /\ last.op = "purge"
    /\ \E k \in DOMAIN pre : pre[k].rc = 0
    /\ \E k \in DOMAIN pre : pre[k].rc < 0 /\ k \in DOMAIN data
    /\ \E k \in DOMAIN pre : pre[k].rc > 0 /\ k \in DOMAIN data

\* b is a + d, and that sum is an i32
ExactAdd(a, d, b) == ~Overflows(a, d) /\ b = a + d

\* C10: every call returns, and the refcount it leaves is the one before
\* plus 1 (insert, emplace), minus 1 (remove, remove_and_purge) or plus
\* other's refcount (consolidate), as an i32.
C10_TotalExactArithmetic ==
    /\ ~panicked
    /\ (last.op = "insert" /\ last.value # NULL_RLP) =>
          ExactAdd(rcOf(pre, sha3(last.value)), 1, rcOf(data, sha3(last.value)))
    /\ (last.op = "emplace" /\ last.value # NULL_RLP) =>
          ExactAdd(rcOf(pre, last.key), 1, rcOf(data, last.key))
    /\ (last.op \in {"remove", "remove_and_purge"} /\ last.key # SHA3_NULL_RLP) =>
          ExactAdd(rcOf(pre, last.key), -1, rcOf(data, last.key))
    /\ last.op = "consolidate" =>
          \A k \in DOMAIN preOther :
              ExactAdd(rcOf(pre, k), preOther[k].rc, rcOf(data, k))


\* C11: insert(NULL_RLP) returns SHA3_NULL_RLP, and it, emplace(key, NULL_RLP)
\* for any key, remove(SHA3_NULL_RLP) and remove_and_purge(SHA3_NULL_RLP)
\* (which returns nothing) leave the whole table as it was.
C11_NullCallsAreNoOps ==
    /\ (last.op = "insert" /\ last.value = NULL_RLP) =>
          (last.ret = SHA3_NULL_RLP /\ data = pre)
    /\ (last.op = "emplace" /\ last.value = NULL_RLP) => data = pre
    /\ (last.op = "remove" /\ last.key = SHA3_NULL_RLP) => data = pre
    /\ (last.op = "remove_and_purge" /\ last.key = SHA3_NULL_RLP) =>
          (last.ret = None /\ data = pre)

\* remove_and_purge(SHA3_NULL_RLP) on a table that holds an entry under
\* that very key, at the refcount at which the entry of another key would go
C11_Witness ==
    /\ last.op = "remove_and_purge"
    /\ last.key = SHA3_NULL_RLP
    /\ SHA3_NULL_RLP \in DOMAIN pre
    /\ pre[SHA3_NULL_RLP].rc = 1


\* the entries the last call took out of the main table
Destroyed == DOMAIN pre \ DOMAIN data

\* the three ways out of the table the lifecycle names for the entry of k
NamedExit(k) ==
    \/ last.op = "purge" /\ pre[k].rc = 0
    \/ last.op = "remove_and_purge" /\ last.key = k /\ pre[k].rc = 1
    \/ last.op = "drain"

\* the overlay loses its entries only to consolidate, which moves them into
\* the main table
OverlayKeepsEntries ==
    \A k \in DOMAIN preOther \ DOMAIN other :
        last.op = "consolidate" /\ k \in DOMAIN data

\* C12 as stated: an entry, once in the table, stays through every later
\* call; only purge at refcount 0, remove_and_purge at refcount 1 and drain
\* take it out, and no other public operation does.
C12_OnlyPurgeAndDrainDestroy ==
    /\ \A k \in Destroyed : NamedExit(k)
    /\ OverlayKeepsEntries

\* C12, amended: an entry, once in the table, stays through every later
\* call; only purge at refcount 0, remove_and_purge at refcount 1, drain and
\* clear take it out.
C12_OnlyPurgeDrainClearDestroy ==
    /\ \A k \in Destroyed : NamedExit(k) \/ last.op = "clear"
    /\ OverlayKeepsEntries

\* clear() dropped an entry that was in use
C12_Witness ==
    /\ last.op = "clear"
    /\ \E k \in Destroyed : pre[k].rc > 0


\* the key the last insert or emplace worked on
InsertedKey == IF last.op = "insert" THEN sha3(last.value) ELSE last.key

\* the entry the insert rule gives key k for value v in table t
InsertRule(t, k, v) ==
    IF k \notin DOMAIN t THEN Entry(v, 1)
    ELSE IF t[k].rc <= 0 THEN Entry(v, t[k].rc + 1)
    ELSE Entry(t[k].value, t[k].rc + 1)

\* C13: insert(value), with key = sha3(value), and emplace(key, value), for a
\* value other than NULL_RLP, follow one rule: an absent key gets (value, 1);
\* at refcount <= 0 the value is replaced and the refcount goes up by one; at
\* refcount > 0 the refcount goes up by one and the value stays. No other
\* key's entry changes.
C13_InsertRule ==
    (last.op \in {"insert", "emplace"} /\ last.value # NULL_RLP) =>
        /\ DOMAIN data = DOMAIN pre \cup {InsertedKey}
        /\ data[InsertedKey] = InsertRule(pre, InsertedKey, last.value)
        /\ \A k \in DOMAIN pre \ {InsertedKey} : data[k] = pre[k]

\* emplace on a key in use, with another value than the stored one, while
\* another key is in the table
C13_Witness ==
    /\ last.op = "emplace"
    /\ last.value # NULL_RLP
    /\ last.key \in DOMAIN pre
    /\ pre[last.key].rc > 0
    /\ pre[last.key].value # last.value
    /\ DOMAIN pre # {last.key}


\* C14: remove(key), for a key other than SHA3_NULL_RLP, takes one off the
\* refcount of an existing entry, leaving its value as it is and the entry in
\* the table even at zero or below; for an absent key it creates the entry
\* (empty placeholder, -1). No other key's entry changes.
C14_RemoveRule ==
    (last.op = "remove" /\ last.key # SHA3_NULL_RLP) =>
        /\ DOMAIN data = DOMAIN pre \cup {last.key}
        /\ data[last.key] = IF last.key \in DOMAIN pre
                            THEN Entry(pre[last.key].value, pre[last.key].rc - 1)
                            ELSE Entry(EmptyValue, -1)
        /\ \A k \in DOMAIN pre \ {last.key} : data[k] = pre[k]

\* remove took the last reference of a stored value: the entry stays, at
\* zero, with its value
C14_Witness ==
    /\ last.op = "remove"
    /\ last.key \in DOMAIN pre
    /\ pre[last.key] = Entry(<<1>>, 1)
    /\ data[last.key] = Entry(<<1>>, 0)
    /\ DOMAIN pre # {last.key}


\* C15: drain() returns exactly the table as it was before the call, entries
\* at zero and negative refcounts included, and leaves the table empty:
\* afterwards raw(k) is absent and contains(k) is false for every key other
\* than SHA3_NULL_RLP, and keys() is empty.
C15_DrainReturnsAll ==
    last.op = "drain" =>
        /\ last.ret = Some(pre)
        /\ data = EmptyMap
        /\ \A k \in Keys \ {SHA3_NULL_RLP} :
              raw(data, k) = None /\ ~contains(data, k)
        /\ DOMAIN keys(data) = {}

\* a drained table that held an entry at zero and one in debt
C15_Witness ==
    /\ last.op = "drain"
    /\ \E k \in DOMAIN pre : pre[k].rc = 0
    /\ \E k \in DOMAIN pre : pre[k].rc < 0


\* C16: keys() returns exactly the keys of the table whose refcount is not
\* zero, each with its current refcount, entries at zero left out, and the
\* call does not change the table.
C16_KeysNonZero ==
    last.op = "keys" =>
        /\ data = pre
        /\ last.ret.some
        /\ DOMAIN last.ret.val = {k \in DOMAIN pre : pre[k].rc # 0}
        /\ \A k \in DOMAIN last.ret.val : last.ret.val[k] = pre[k].rc

\* keys() read on a table with an entry at zero and one in debt: the first
\* is left out, the second listed with its negative count
C16_Witness ==
    /\ last.op = "keys"
    /\ \E k \in DOMAIN pre : pre[k].rc = 0 /\ k \notin DOMAIN last.ret.val
    /\ \E k \in DOMAIN pre : pre[k].rc < 0 /\ last.ret.val[k] < 0


\* the entry of key k in table t can be read back by its key: it is in debt,
\* or its value hashes to k
Readable(t, k) == (k \in DOMAIN t /\ t[k].rc >= 0) => sha3(t[k].value) = k

\* C17 as stated: for any main store and any sequence of insert and remove
\* calls, making the calls on a new overlay and consolidating it into main
\* gives, for every key, the refcount (absent as 0), the contains result and
\* the get result that making the calls on main itself gives.
C17_ReplayEquivalent ==
    last.op = "replay.consolidate" =>
        \A k \in Keys :
            /\ rcOf(data, k) = rcOf(direct, k)
            /\ contains(data, k) = contains(direct, k)
            /\ get(data, k) = get(direct, k)

\* C17, amended: the refcount and the contains result are the same for every
\* key; the get result is the same for every key whose entry in main, when
\* main has one at refcount >= 0 before the sequence, holds the value that
\* hashes to the key.
C17_ReplayEquivalentWhenReadable ==
    last.op = "replay.consolidate" =>
        \A k \in Keys :
            /\ rcOf(data, k) = rcOf(direct, k)
            /\ contains(data, k) = contains(direct, k)
            /\ Readable(pre, k) => get(data, k) = get(direct, k)

\* a sequence with an insert and a remove in it brought back into use an
\* entry main held at zero, and both ways give the value
C17_Witness ==
    /\ last.op = "replay.consolidate"
    /\ \E k \in DOMAIN pre \cap DOMAIN preOther :
          /\ pre[k].rc = 0
          /\ Readable(pre, k)
          /\ get(data, k) = Some(pre[k].value)
          /\ get(direct, k) = Some(pre[k].value)
    /\ \E k \in DOMAIN preOther : preOther[k].rc <= 0


\* C18: purge does not show in the lookups and doing it twice is doing it
\* once: get and contains of every key and keys() give after purge() what
\* they gave before it, and a second purge() leaves the table as the first
\* left it.
C18_PurgeInvisibleIdempotent ==
    last.op = "purge" =>
        /\ \A k \in Keys : /\ get(data, k) = get(pre, k)
                           /\ contains(data, k) = contains(pre, k)
        /\ keys(data) = keys(pre)
        /\ purge(data) = data

\* a purge that dropped an entry and kept one in debt and one in use
C18_Witness ==
    /\ last.op = "purge"
    /\ DOMAIN data # DOMAIN pre
    /\ \E k \in DOMAIN data : data[k].rc < 0
    /\ \E k \in DOMAIN data : data[k].rc > 0

\* C19: the three lookups agree: get(key) returns a value exactly when
\* contains(key) is true, exactly when raw(key) is present with a refcount
\* above zero, and the value get returns is the value raw carries.
C19_ObserversAgree ==
    \A k \in Keys :
        /\ get(data, k).some <=> contains(data, k)
        /\ contains(data, k) <=> (raw(data, k).some /\ raw(data, k).val.rc > 0)
        /\ get(data, k).some => get(data, k).val = raw(data, k).val.value

\* a table with an entry in use and one at zero: raw shows both, get and
\* contains only the first
C19_Witness ==
    /\ \E k \in Keys \ {SHA3_NULL_RLP} : get(data, k).some /\ contains(data, k)
    /\ \E k \in DOMAIN data :
          data[k].rc = 0 /\ raw(data, k).some /\ ~get(data, k).some /\ ~contains(data, k)

====
